---- MODULE Spec2Model ----
(***************************************************************************)
(* CDFSManager.py: the CDFS archive codec.  pack_cdfs builds an archive     *)
(* from a directory tree, unpack_cdfs materialises an archive into a        *)
(* directory tree, verify_cdfs audits the structure of an archive.          *)
(*                                                                          *)
(* Files are byte sequences; the byte at file offset k is element k+1.      *)
(* Strings are sequences of byte codes (ASCII): the model's names are       *)
(* ASCII, so len(str) = len(str.encode('utf-8')); the byte 255 stands for   *)
(* a byte that does not decode as UTF-8.                                    *)
(***************************************************************************)
EXTENDS Integers, Sequences, FiniteSets, TLC

(* ------------------------------ bounds -------------------------------- *)
MaxFiles == 2
MaxDataLen == 2
MaxSectorSize == 3
MaxWorkers == 2
MaxFailures == 1      \* I/O errors the environment raises in one run

(* ------------------------- program constants -------------------------- *)
CDFS_MAGIC == 1128547923
CDFS_VERSION == 1
HeaderSize == 40
EntrySize == 16
DefaultCacheSize == 128 * 1024
BufferSize == 16 * 1024 * 1024

(* byte codes *)
SLASH == 47
BACKSLASH == 92
BADBYTE == 128 + 127

Min(a, b) == IF a < b THEN a ELSE b
Max(a, b) == IF a > b THEN a ELSE b

Zeros(n) == [i \in 1..n |-> 0]

(* struct.pack('<I', n): four bytes, least significant first *)
Pack32(n) ==
    << n % 256, (n \div 256) % 256, (n \div 65536) % 256, (n \div 16777216) % 256 >>

(* struct.unpack('<I', s[off:off+4]) *)
Unpack32(s, off) ==
    s[off + 1] + 256 * s[off + 2] + 65536 * s[off + 3] + 16777216 * s[off + 4]

RECURSIVE Concat(_)
Concat(ss) == IF ss = << >> THEN << >> ELSE Head(ss) \o Concat(Tail(ss))

(* f.seek(pos); f.write(data) on a file with content `file`: a write past   *)
(* the end fills the gap with zero bytes; writing nothing changes nothing.  *)
WriteAt(file, pos, data) ==
    IF Len(data) = 0 THEN file
    ELSE [i \in 1..Max(Len(file), pos + Len(data)) |->
            IF i > pos /\ i <= pos + Len(data) THEN data[i - pos]
            ELSE IF i <= Len(file) THEN file[i] ELSE 0]

(* f.seek(pos); f.read(n): short at end of file *)
ReadAt(file, pos, n) == SubSeq(file, pos + 1, Min(pos + n, Len(file)))

(* the offsets f.read(n) at pos actually reads *)
ReadRange(file, pos, n) == { k \in pos..(pos + n - 1) : k < Len(file) }

(* str.upper() on ASCII *)
UpperByte(b) == IF b >= 97 /\ b <= 122 THEN b - 32 ELSE b
Upper(s) == [i \in 1..Len(s) |-> UpperByte(s[i])]

(* str.replace(from, to) for one-character strings *)
Replace(s, from, to) == [i \in 1..Len(s) |-> IF s[i] = from THEN to ELSE s[i]]

(* the host's path conventions: os.sep, and the separators os.path.split sees *)
Hosts == {"posix", "nt"}
Sep(h) == IF h = "nt" THEN BACKSLASH ELSE SLASH
Seps(h) == IF h = "nt" THEN {SLASH, BACKSLASH} ELSE {SLASH}

LastSep(h, p) ==
    LET S == { i \in 1..Len(p) : p[i] \in Seps(h) }
    IN IF S = {} THEN 0 ELSE CHOOSE i \in S : \A j \in S : j <= i

RECURSIVE RStripSeps(_, _)
RStripSeps(h, s) ==
    IF s # << >> /\ s[Len(s)] \in Seps(h) THEN RStripSeps(h, SubSeq(s, 1, Len(s) - 1))
    ELSE s

(* os.path.split(p): (head, tail), tail after the last separator of the host, *)
(* head with trailing separators stripped unless it is all separators         *)
PathSplit(h, p) ==
    LET i == LastSep(h, p)
        head == SubSeq(p, 1, i)
        stripped == RStripSeps(h, head)
    IN [head |-> IF stripped = << >> THEN head ELSE stripped,
        tail |-> SubSeq(p, i + 1, Len(p))]

(* os.path.join of path components with the host separator *)
RECURSIVE JoinPath(_, _)
JoinPath(h, comps) ==
    IF comps = << >> THEN << >>
    ELSE IF Len(comps) = 1 THEN comps[1]
    ELSE comps[1] \o << Sep(h) >> \o JoinPath(h, Tail(comps))

(* the components the host's filesystem resolves a relative path into *)
RECURSIVE Components(_, _)
Components(h, p) ==
    LET S == { i \in 1..Len(p) : p[i] \in Seps(h) }
    IN IF S = {} THEN (IF p = << >> THEN << >> ELSE << p >>)
       ELSE LET i == CHOOSE k \in S : \A j \in S : k <= j
                first == SubSeq(p, 1, i - 1)
                rest == Components(h, SubSeq(p, i + 1, Len(p)))
            IN IF first = << >> THEN rest ELSE << first >> \o rest

(* ------------------------- string table (4.2) ------------------------- *)

(* bytes.decode('utf-8') succeeds *)
Decodes(s) == \A i \in 1..Len(s) : s[i] < 128

RECURSIVE ScanEnd(_, _)
ScanEnd(string_table, end) ==
    IF end < Len(string_table) /\ string_table[end + 1] # 0
    THEN ScanEnd(string_table, end + 1)
    ELSE end

(* unpack_string_from_table: the bytes string_table[offset:end]; an offset   *)
(* at or past the end gives the empty slice                                  *)
unpack_string_from_table(string_table, offset) ==
    SubSeq(string_table, offset + 1, ScanEnd(string_table, offset))

(* len(string_table[index:].split(b'\0', 1)[0]) *)
EntryLen(string_table, index) == ScanEnd(string_table, index) - index

(* mutant: the scan probes every byte offset, not only the entry starts *)
RECURSIVE ScanTableEveryByte(_, _, _)
ScanTableEveryByte(string_table, value, index) ==
    IF index < Len(string_table) - Len(value)
    THEN IF SubSeq(string_table, index + 1, index + Len(value)) = value
            /\ string_table[index + Len(value) + 1] = 0
         THEN index
         ELSE ScanTableEveryByte(string_table, value, index + 1)
    ELSE -1

(* add_string_to_table lines 143-149: the scan of the table *)
RECURSIVE ScanTable(_, _, _)
ScanTable(string_table, value, index) ==
    IF index < Len(string_table) - Len(value)
    THEN IF SubSeq(string_table, index + 1, index + Len(value)) = value
            /\ string_table[index + Len(value) + 1] = 0
         THEN index
         ELSE ScanTable(string_table, value, index + EntryLen(string_table, index) + 1)
    ELSE -1

(* add_string_to_table: the offset returned, and the table and the cache     *)
(* as the call leaves them                                                   *)
add_string_to_table(string_table, string_cache, string_value) ==
    LET value == Upper(string_value)
        found == ScanTable(string_table, value, 0)
    IN IF value \in DOMAIN string_cache
       THEN [offset |-> string_cache[value], table |-> string_table, cache |-> string_cache]
       ELSE IF found >= 0
       THEN [offset |-> found, table |-> string_table,
             cache |-> (value :> found) @@ string_cache]
       ELSE [offset |-> Len(string_table),
             table |-> string_table \o value \o << 0 >>,
             cache |-> (value :> Len(string_table)) @@ string_cache]

(* ------------------------------ state --------------------------------- *)
VARIABLES
    host,           \* the platform whose os.path the program runs on
    tree,           \* input_dir: the regular files of the source tree, in walk order
    sector_size,    \* pack_cdfs argument
    debug_mode,     \* pack_cdfs / unpack_cdfs argument
    max_workers,    \* pack_cdfs / unpack_cdfs argument
    pc,             \* where the main thread is
    archive,        \* the bytes of the archive file
    string_table,   \* pack_cdfs: the string table built
    string_cache,   \* pack_cdfs: the cache add_string_to_table keeps (value -> offset)
    calls,          \* the add_string_to_table calls made one by one, with what each returned
    file_table,     \* pack_cdfs: the file table built (one entry per walked file)
    first_sector_offset, \* pack_cdfs local
    total_size,     \* pack_cdfs local
    ptask,          \* pack: per file, the state of its process_file_task
    pmain,          \* pack: the as_completed loop's locals and what it printed
    pack_ret,       \* how pack_cdfs ended
    verify_ret,     \* what verify_cdfs returned and printed
    uplan,          \* unpack_cdfs: file_tasks
    utask,          \* unpack: per entry, the state of its unpack_file_task
    umain,          \* unpack: the as_completed loop's locals and what it printed
    out,            \* output_dir: destination path -> bytes
    unpack_ret      \* how unpack_cdfs ended

vars == << host, tree, sector_size, debug_mode, max_workers, pc, archive, string_table,
           string_cache, calls,
           file_table, first_sector_offset, total_size, ptask, pmain, pack_ret,
           verify_ret, uplan, utask, umain, out, unpack_ret >>

(* ------------------------- the source trees --------------------------- *)
DirNames == { << >>, << << 100 >> >> }              \* "" and "d"
FileNames == { << 97 >>, << 65 >>, << 98 >> }       \* "a", "A", "b"
Content(n) == [i \in 1..n |-> 10 * n + i]
Contents == { Content(n) : n \in 0..MaxDataLen }
SourceFiles == [dir : DirNames, name : FileNames, data : Contents]

(* os.walk is top-down: the files of the root come before those of "d";     *)
(* a directory holds one file per name                                       *)
WalkOrdered(t) ==
    /\ \A i, j \in 1..Len(t) : i # j => (t[i].dir # t[j].dir \/ t[i].name # t[j].name)
    /\ \A i, j \in 1..Len(t) : (i < j /\ t[j].dir = << >>) => t[i].dir = << >>

Trees == { t \in UNION { [1..n -> SourceFiles] : n \in 0..MaxFiles } : WalkOrdered(t) }

(* os.path.relpath(file_path, input_dir), in the host's convention *)
RelPath(h, f) == JoinPath(h, f.dir \o << f.name >>)

(* --------------------------- pack (4.3, 4.4) --------------------------- *)

(* pack_cdfs lines 183-193: file_paths *)
WalkFiles(h, t) == [i \in 1..Len(t) |-> [rel_path |-> RelPath(h, t[i]), size |-> Len(t[i].data)]]

(* pack_cdfs lines 197-218: the loop interning every file's directory and name *)
RECURSIVE InternFiles(_, _, _, _)
InternFiles(h, file_paths, k, acc) ==
    IF k > Len(file_paths) THEN acc
    ELSE LET rel_path == Replace(file_paths[k].rel_path, SLASH, BACKSLASH)
             sp == PathSplit(h, rel_path)
             dir_name == sp.head
             file_name == sp.tail
             d == add_string_to_table(acc.string_table, acc.string_cache, dir_name)
             f == add_string_to_table(d.table, d.cache, file_name)
             n1 == IF dir_name # << >> /\ d.offset = Len(f.table) - Len(dir_name) - 1
                   THEN 1 ELSE 0
             n2 == IF f.offset = Len(f.table) - Len(file_name) - 1 THEN 1 ELSE 0
         IN InternFiles(h, file_paths, k + 1,
                [string_table |-> f.table,
                 string_cache |-> f.cache,
                 string_table_entries |-> acc.string_table_entries + n1 + n2,
                 file_table |-> Append(acc.file_table,
                     [file_name_offset |-> f.offset, dir_name_offset |-> d.offset,
                      size |-> file_paths[k].size])])

InternStart ==
    [string_table |-> << 0 >>, string_cache |-> << >>, string_table_entries |-> 1,
     file_table |-> << >>]

(* mutant: the sectors of a file rounded down *)
SectorsNeededFloor(size, ss) == size \div ss

(* sectors_needed = (size + sector_size - 1) // sector_size *)
SectorsNeeded(size, ss) == (size + ss - 1) \div ss

(* mutant: the preamble's size is not rounded up to a sector boundary *)
FirstSectorOffsetUnaligned(n_entries, string_table_size, ss) ==
    HeaderSize + n_entries * EntrySize + string_table_size

(* pack_cdfs lines 220-229 *)
FirstSectorOffset(n_entries, string_table_size, ss) ==
    LET raw == HeaderSize + n_entries * EntrySize + string_table_size
    IN IF raw % ss # 0 THEN raw + (ss - (raw % ss)) ELSE raw

(* pack_cdfs lines 231-235: start_sector of entry k, sequential allocation *)
RECURSIVE StartSector(_, _, _)
StartSector(ft, ss, k) ==
    IF k <= 1 THEN 0
    ELSE StartSector(ft, ss, k - 1) + SectorsNeeded(ft[k - 1].size, ss)

AssignSectors(ft, ss) ==
    [k \in 1..Len(ft) |->
        [file_name_offset |-> ft[k].file_name_offset,
         dir_name_offset |-> ft[k].dir_name_offset,
         size |-> ft[k].size,
         start_sector |-> StartSector(ft, ss, k)]]

(* total_size = sum(entry['size'] for entry in file_table) *)
RECURSIVE SumSizes(_, _)
SumSizes(ft, k) == IF k = 0 THEN 0 ELSE SumSizes(ft, k - 1) + ft[k].size

(* current_sector after the loop *)
TotalSectors(ft, ss) == StartSector(ft, ss, Len(ft) + 1)

(* struct.pack('<IIIIIIIIII', ...) *)
PackHeader(fields) == Concat([i \in 1..Len(fields) |-> Pack32(fields[i])])

(* struct.pack('<IIII', ...) of one entry *)
PackEntry(e) ==
    Pack32(e.file_name_offset) \o Pack32(e.dir_name_offset)
        \o Pack32(e.start_sector) \o Pack32(e.size)

(* pack_cdfs lines 237-268: the archive file as the with block leaves it *)
Preamble(ft, st, st_entries, ss, cache_size) ==
    LET fso == FirstSectorOffset(Len(ft), Len(st), ss)
        current_sector == TotalSectors(ft, ss)
        padding == fso - (HeaderSize + Len(ft) * EntrySize + Len(st))
        header == PackHeader(<< CDFS_MAGIC, CDFS_VERSION, ss, cache_size, fso, current_sector,
                                Len(ft) * EntrySize, Len(ft), Len(st), st_entries >>)
        written == header \o Concat([k \in 1..Len(ft) |-> PackEntry(ft[k])]) \o st
                       \o Zeros(padding)
    IN WriteAt(written, fso + current_sector * ss - 1, << 0 >>)

(* ThreadPoolExecutor: tasks leave the work queue in submission order, and  *)
(* at most `workers` of them run at a time                                   *)
Running(tasks) == { i \in DOMAIN tasks : tasks[i].st \in {"running", "data_written"} }
Finished(tasks) == { i \in DOMAIN tasks : tasks[i].st \in {"done", "failed"} }
CanStart(tasks, i, workers) ==
    /\ i \in DOMAIN tasks
    /\ tasks[i].st = "queued"
    /\ \A j \in DOMAIN tasks : j < i => tasks[j].st # "queued"
    /\ Cardinality(Running(tasks)) < workers

(* the I/O errors raised so far *)
Failures(pt, ut) ==
    Cardinality({ i \in DOMAIN pt : pt[i].st = "failed" })
        + Cardinality({ i \in DOMAIN ut : ut[i].st = "failed" })

(* mutant: every task writes at the first sector *)
FileOffsetFirstSector(fso, start_sector, ss) == fso

(* process_file_task: file_offset, and the zero padding after the data *)
FileOffset(fso, start_sector, ss) == fso + start_sector * ss
SectorPadding(n, ss) == (ss - (n % ss)) % ss

Init ==
    /\ host \in Hosts
    /\ tree \in Trees
    /\ sector_size \in 1..MaxSectorSize
    /\ debug_mode \in BOOLEAN
    /\ max_workers \in 1..MaxWorkers
    /\ pc = "start"
    /\ archive = << >>
    /\ string_table = << >>
    /\ string_cache = << >>
    /\ calls = << >>
    /\ file_table = << >>
    /\ first_sector_offset = 0
    /\ total_size = 0
    /\ ptask = << >>
    /\ pmain = [completed |-> 0, processed_size |-> 0, collected |-> {}, errors |-> {}]
    /\ pack_ret = "none"
    /\ verify_ret = [ret |-> FALSE, msg |-> "not run", warned |-> FALSE]
    /\ uplan = << >>
    /\ utask = << >>
    /\ umain = [completed |-> 0, collected |-> {}, errors |-> {}]
    /\ out = << >>
    /\ unpack_ret = "none"

(* pack_cdfs lines 180-282: walk, tables, layout, preamble, and the tasks    *)
(* submitted to the executor                                                 *)
PackPreamble ==
    /\ pc = "start"
    /\ LET t == InternFiles(host, WalkFiles(host, tree), 1, InternStart)
           ft == AssignSectors(t.file_table, sector_size)
       IN /\ string_table' = t.string_table
          /\ string_cache' = t.string_cache
          /\ file_table' = ft
          /\ first_sector_offset' = FirstSectorOffset(Len(ft), Len(t.string_table), sector_size)
          /\ total_size' = SumSizes(ft, Len(ft))
          /\ archive' = Preamble(ft, t.string_table, t.string_table_entries,
                                 sector_size, DefaultCacheSize)
          /\ ptask' = [k \in 1..Len(ft) |-> [st |-> "queued", data |-> << >>, wrote |-> {}]]
    /\ pc' = "pack_fanout"
    /\ UNCHANGED << host, calls, tree, sector_size, debug_mode, max_workers, pmain, pack_ret,
                    verify_ret, uplan, utask, umain, out, unpack_ret >>

(* process_file_task lines 160-161: a worker takes the task and reads the    *)
(* whole source file                                                         *)
PackTaskRead(i) ==
    /\ pc \in {"pack_fanout", "pack_raising"}
    /\ CanStart(ptask, i, max_workers)
    /\ ptask' = [ptask EXCEPT ![i].st = "running", ![i].data = tree[i].data]
    /\ UNCHANGED << host, string_cache, calls, tree, sector_size, debug_mode, max_workers, pc, archive,
                    string_table, file_table, first_sector_offset, total_size, pmain,
                    pack_ret, verify_ret, uplan, utask, umain, out, unpack_ret >>

(* process_file_task lines 173-174: the read (or the open of the archive)    *)
(* raises; the task returns (idx, 0, str(e)) having written nothing          *)
PackTaskFail(i) ==
    /\ pc \in {"pack_fanout", "pack_raising"}
    /\ CanStart(ptask, i, max_workers)
    /\ Failures(ptask, utask) < MaxFailures
    /\ ptask' = [ptask EXCEPT ![i].st = "failed"]
    /\ UNCHANGED << host, string_cache, calls, tree, sector_size, debug_mode, max_workers, pc, archive,
                    string_table, file_table, first_sector_offset, total_size, pmain,
                    pack_ret, verify_ret, uplan, utask, umain, out, unpack_ret >>

(* process_file_task lines 163-168: seek to file_offset, write the data *)
PackTaskWrite(i) ==
    /\ i \in DOMAIN ptask
    /\ ptask[i].st = "running"
    /\ LET file_data == ptask[i].data
           file_offset == FileOffset(first_sector_offset, file_table[i].start_sector,
                                     sector_size)
       IN /\ archive' = WriteAt(archive, file_offset, file_data)
          /\ ptask' = [ptask EXCEPT
                ![i].st = IF SectorPadding(Len(file_data), sector_size) > 0
                          THEN "data_written" ELSE "done",
                ![i].wrote = file_offset..(file_offset + Len(file_data) - 1)]
    /\ UNCHANGED << host, string_cache, calls, tree, sector_size, debug_mode, max_workers, pc,
                    string_table, file_table, first_sector_offset, total_size, pmain,
                    pack_ret, verify_ret, uplan, utask, umain, out, unpack_ret >>

(* process_file_task lines 169-172: the zero padding up to the sector boundary *)
PackTaskPad(i) ==
    /\ i \in DOMAIN ptask
    /\ ptask[i].st = "data_written"
    /\ LET n == Len(ptask[i].data)
           pos == FileOffset(first_sector_offset, file_table[i].start_sector, sector_size) + n
           sector_padding == SectorPadding(n, sector_size)
       IN /\ archive' = WriteAt(archive, pos, Zeros(sector_padding))
          /\ ptask' = [ptask EXCEPT ![i].st = "done",
                                    ![i].wrote = @ \cup (pos..(pos + sector_padding - 1))]
    /\ UNCHANGED << host, string_cache, calls, tree, sector_size, debug_mode, max_workers, pc,
                    string_table, file_table, first_sector_offset, total_size, pmain,
                    pack_ret, verify_ret, uplan, utask, umain, out, unpack_ret >>

(* pack_cdfs lines 286-295: one turn of the as_completed loop, for a task    *)
(* that has finished.  A failed task's third result is str(e), which is no   *)
(* existing path.  The progress line divides by total_size.                  *)
PackCollect(i) ==
    /\ pc = "pack_fanout"
    /\ i \in Finished(ptask) \ pmain.collected
    /\ IF ptask[i].st = "done"
       THEN IF debug_mode /\ total_size = 0
            THEN /\ pc' = "pack_raising"
                 /\ pmain' = [pmain EXCEPT !.completed = @ + 1,
                                           !.collected = @ \cup {i}]
            ELSE /\ pc' = pc
                 /\ pmain' = [pmain EXCEPT !.completed = @ + 1,
                                           !.processed_size = @ + Len(ptask[i].data),
                                           !.collected = @ \cup {i}]
       ELSE /\ pc' = pc
            /\ pmain' = [pmain EXCEPT !.completed = @ + 1,
                                      !.collected = @ \cup {i},
                                      !.errors = @ \cup {i}]
    /\ UNCHANGED << host, string_cache, calls, tree, sector_size, debug_mode, max_workers, archive,
                    string_table, file_table, first_sector_offset, total_size, ptask,
                    pack_ret, verify_ret, uplan, utask, umain, out, unpack_ret >>

(* pack_cdfs lines 296-298: the loop is over, the executor has shut down *)
PackReturn ==
    /\ pc = "pack_fanout"
    /\ pmain.collected = DOMAIN ptask
    /\ pc' = "packed"
    /\ pack_ret' = "True"
    /\ UNCHANGED << host, string_cache, calls, tree, sector_size, debug_mode, max_workers, archive,
                    string_table, file_table, first_sector_offset, total_size, ptask, pmain,
                    verify_ret, uplan, utask, umain, out, unpack_ret >>

(* pack_cdfs line 293 raised ZeroDivisionError: the with block waits for     *)
(* every task (shutdown(wait=True)) and the exception leaves pack_cdfs       *)
PackRaise ==
    /\ pc = "pack_raising"
    /\ Finished(ptask) = DOMAIN ptask
    /\ pc' = "pack_raised"
    /\ pack_ret' = "ZeroDivisionError"
    /\ UNCHANGED << host, string_cache, calls, tree, sector_size, debug_mode, max_workers, archive,
                    string_table, file_table, first_sector_offset, total_size, ptask, pmain,
                    verify_ret, uplan, utask, umain, out, unpack_ret >>

PackNext ==
    \/ PackPreamble
    \/ \E i \in DOMAIN ptask : PackTaskRead(i)
    \/ \E i \in DOMAIN ptask : PackTaskFail(i)
    \/ \E i \in DOMAIN ptask : PackTaskWrite(i)
    \/ \E i \in DOMAIN ptask : PackTaskPad(i)
    \/ \E i \in DOMAIN ptask : PackCollect(i)
    \/ PackReturn
    \/ PackRaise

(* --------------------- reading an archive (4.1) ----------------------- *)

(* struct.unpack('<IIIIIIIIII', header_data) *)
ParseHeader(a) ==
    [magic |-> Unpack32(a, 0), version |-> Unpack32(a, 4),
     sector_size |-> Unpack32(a, 8), recommended_cache_size |-> Unpack32(a, 12),
     first_sector_offset |-> Unpack32(a, 16), total_sectors |-> Unpack32(a, 20),
     file_table_length |-> Unpack32(a, 24), file_table_entries |-> Unpack32(a, 28),
     string_table_length |-> Unpack32(a, 32), string_table_entries |-> Unpack32(a, 36)]

(* struct.unpack('<IIII', entry_data) of the i-th entry (from 0) *)
ParseEntry(a, i) ==
    LET at == HeaderSize + EntrySize * i
    IN [file_name_offset |-> Unpack32(a, at), dir_name_offset |-> Unpack32(a, at + 4),
        start_sector |-> Unpack32(a, at + 8), length |-> Unpack32(a, at + 12)]

(* the entries wholly present in the file *)
EntriesPresent(a, n) == Min(n, Max(0, (Len(a) - HeaderSize) \div EntrySize))

(* f.read(string_table_length) after the file table *)
ReadStringTable(a, h) ==
    ReadAt(a, HeaderSize + EntrySize * h.file_table_entries, h.string_table_length)

(* ---------------------------- verify (4.6) ---------------------------- *)

(* mutant: the bounds check leaves the entry's length out *)
VerifyEntryNoLength(a, h, st, e) ==
    LET file_offset == h.first_sector_offset + e.start_sector * h.sector_size
    IN IF file_offset > Len(a) THEN "extends beyond end of archive"
       ELSE IF e.file_name_offset >= h.string_table_length THEN "invalid filename offset"
       ELSE IF e.dir_name_offset >= h.string_table_length
            THEN "invalid directory name offset"
       ELSE IF ~ Decodes(unpack_string_from_table(st, e.file_name_offset))
               \/ ~ Decodes(unpack_string_from_table(st, e.dir_name_offset))
            THEN "invalid string table references"
       ELSE ""

(* verify_cdfs lines 402-423 for one entry: "" when it passes, else the     *)
(* diagnostic                                                               *)
VerifyEntry(a, h, st, e) ==
    LET file_offset == h.first_sector_offset + e.start_sector * h.sector_size
        file_end == file_offset + e.length
    IN IF file_end > Len(a) THEN "extends beyond end of archive"
       ELSE IF e.file_name_offset >= h.string_table_length THEN "invalid filename offset"
       ELSE IF e.dir_name_offset >= h.string_table_length
            THEN "invalid directory name offset"
       ELSE IF ~ Decodes(unpack_string_from_table(st, e.file_name_offset))
               \/ ~ Decodes(unpack_string_from_table(st, e.dir_name_offset))
            THEN "invalid string table references"
       ELSE ""

(* verify_cdfs: the value returned, the diagnostic printed, and whether the  *)
(* version warning was printed                                               *)
verify_cdfs(a) ==
    IF Len(a) < HeaderSize
    THEN [ret |-> FALSE, msg |-> "too small", warned |-> FALSE]
    ELSE
    LET h == ParseHeader(a)
        warned == h.version # CDFS_VERSION
        st == ReadStringTable(a, h)
        bad == { i \in 0..(h.file_table_entries - 1) :
                    VerifyEntry(a, h, st, ParseEntry(a, i)) # "" }
    IN IF h.magic # CDFS_MAGIC
       THEN [ret |-> FALSE, msg |-> "invalid file format", warned |-> FALSE]
       ELSE IF h.first_sector_offset > Len(a)
       THEN [ret |-> FALSE, msg |-> "first sector offset exceeds file size", warned |-> warned]
       ELSE IF h.file_table_entries * EntrySize # h.file_table_length
       THEN [ret |-> FALSE, msg |-> "file table length mismatch", warned |-> warned]
       ELSE IF EntriesPresent(a, h.file_table_entries) < h.file_table_entries
       THEN [ret |-> FALSE, msg |-> "truncated file table", warned |-> warned]
       ELSE IF Len(st) < h.string_table_length
       THEN [ret |-> FALSE, msg |-> "truncated string table", warned |-> warned]
       ELSE IF bad # {}
       THEN [ret |-> FALSE,
             msg |-> VerifyEntry(a, h, st,
                        ParseEntry(a, CHOOSE i \in bad : \A j \in bad : i <= j)),
             warned |-> warned]
       ELSE [ret |-> TRUE, msg |-> "", warned |-> warned]

VerifyCdfs ==
    /\ pc \in {"packed", "crafted"}
    /\ verify_ret' = verify_cdfs(archive)
    /\ pc' = "verified"
    /\ UNCHANGED << host, string_cache, calls, tree, sector_size, debug_mode, max_workers, archive,
                    string_table, file_table, first_sector_offset, total_size, ptask, pmain,
                    pack_ret, uplan, utask, umain, out, unpack_ret >>

(* ---------------------------- unpack (4.5) ---------------------------- *)

EndsWithSep(h, s) == s # << >> /\ s[Len(s)] \in Seps(h)

(* os.path.join(dir_name, file_name), relative to output_dir; the model's   *)
(* names never start with a separator                                       *)
OsPathJoin(h, dir_name, file_name) ==
    IF dir_name = << >> THEN file_name
    ELSE IF EndsWithSep(h, dir_name) THEN dir_name \o file_name
    ELSE dir_name \o << Sep(h) >> \o file_name

(* mutant: the task is given the length rounded up to whole sectors *)
FileTaskWholeSectors(h, hd, st, e) ==
    LET file_name == unpack_string_from_table(st, e.file_name_offset)
        dir_name == unpack_string_from_table(st, e.dir_name_offset)
    IN [file_name |-> file_name,
        dir_name |-> dir_name,
        file_path |-> IF dir_name # << >>
                      THEN OsPathJoin(h, Replace(dir_name, BACKSLASH, SLASH), file_name)
                      ELSE file_name,
        file_offset |-> hd.first_sector_offset + e.start_sector * hd.sector_size,
        file_length |-> ((e.length + hd.sector_size - 1) \div hd.sector_size) * hd.sector_size]

(* unpack_cdfs lines 90-103 for one entry *)
FileTask(h, hd, st, e) ==
    LET file_name == unpack_string_from_table(st, e.file_name_offset)
        dir_name == unpack_string_from_table(st, e.dir_name_offset)
    IN [file_name |-> file_name,
        dir_name |-> dir_name,
        file_path |-> IF dir_name # << >>
                      THEN OsPathJoin(h, Replace(dir_name, BACKSLASH, SLASH), file_name)
                      ELSE file_name,
        file_offset |-> hd.first_sector_offset + e.start_sector * hd.sector_size,
        file_length |-> e.length]

(* unpack_cdfs lines 55-103: how the preamble is read ("ok", "False" for a   *)
(* wrong magic, or the exception raised) and the file_tasks built            *)
UnpackPlan(h, a) ==
    IF Len(a) < HeaderSize THEN [ret |-> "struct.error", tasks |-> << >>]
    ELSE
    LET hd == ParseHeader(a)
        st == ReadStringTable(a, hd)
        tasks == [k \in 1..hd.file_table_entries |-> FileTask(h, hd, st, ParseEntry(a, k - 1))]
    IN IF \E k \in 1..4 : a[k] >= 128
       THEN [ret |-> "UnicodeDecodeError", tasks |-> << >>]
       ELSE IF hd.magic # CDFS_MAGIC THEN [ret |-> "False", tasks |-> << >>]
       ELSE IF EntriesPresent(a, hd.file_table_entries) < hd.file_table_entries
       THEN [ret |-> "struct.error", tasks |-> << >>]
       ELSE IF \E k \in 1..hd.file_table_entries :
                  ~ Decodes(tasks[k].file_name) \/ ~ Decodes(tasks[k].dir_name)
       THEN [ret |-> "UnicodeDecodeError", tasks |-> << >>]
       ELSE [ret |-> "ok", tasks |-> tasks]

(* the output file a task's file_path names, as the components below output_dir *)
Dest(h, task) == Components(h, task.file_path)

(* open(file_path, 'wb') has a file to open *)
Openable(h, task) == task.file_name # << >> /\ ~ EndsWithSep(h, task.file_path)

UnpackPreamble ==
    /\ pc = "verified"
    /\ LET p == UnpackPlan(host, archive)
       IN IF p.ret = "ok"
          THEN /\ uplan' = p.tasks
               /\ utask' = [k \in 1..Len(p.tasks) |->
                              [st |-> "queued", remaining |-> 0, rpos |-> 0, wpos |-> 0,
                               reads |-> {}]]
               /\ pc' = "unpack_fanout"
               /\ unpack_ret' = unpack_ret
          ELSE /\ pc' = "unpacked"
               /\ unpack_ret' = p.ret
               /\ UNCHANGED << uplan, utask >>
    /\ UNCHANGED << host, string_cache, calls, tree, sector_size, debug_mode, max_workers, archive,
                    string_table, file_table, first_sector_offset, total_size, ptask, pmain,
                    pack_ret, verify_ret, umain, out >>

(* unpack_file_task lines 37-42: makedirs, open the archive, create or       *)
(* truncate the output file, seek                                            *)
UnpackTaskOpen(i) ==
    /\ pc = "unpack_fanout"
    /\ CanStart(utask, i, max_workers)
    /\ IF Openable(host, uplan[i])
       THEN /\ out' = (Dest(host, uplan[i]) :> << >>) @@ out
            /\ utask' = [utask EXCEPT
                  ![i].st = IF uplan[i].file_length > 0 THEN "running" ELSE "done",
                  ![i].remaining = uplan[i].file_length]
       ELSE /\ utask' = [utask EXCEPT ![i].st = "failed"]
            /\ out' = out
    /\ UNCHANGED << host, string_cache, calls, tree, sector_size, debug_mode, max_workers, pc, archive,
                    string_table, file_table, first_sector_offset, total_size, ptask, pmain,
                    pack_ret, verify_ret, uplan, umain, unpack_ret >>

(* unpack_file_task: makedirs or an open raises OSError *)
UnpackTaskFail(i) ==
    /\ pc = "unpack_fanout"
    /\ CanStart(utask, i, max_workers)
    /\ Failures(ptask, utask) < MaxFailures
    /\ utask' = [utask EXCEPT ![i].st = "failed"]
    /\ UNCHANGED << host, string_cache, calls, tree, sector_size, debug_mode, max_workers, pc, archive,
                    string_table, file_table, first_sector_offset, total_size, ptask, pmain,
                    pack_ret, verify_ret, uplan, umain, out, unpack_ret >>

(* unpack_file_task lines 44-48: one turn of the copy loop *)
UnpackTaskChunk(i) ==
    /\ i \in DOMAIN utask
    /\ utask[i].st = "running"
    /\ utask[i].remaining > 0
    /\ LET chunk_size == Min(utask[i].remaining, BufferSize)
           from == uplan[i].file_offset + utask[i].rpos
           chunk == ReadAt(archive, from, chunk_size)
           dest == Dest(host, uplan[i])
       IN /\ out' = (dest :> WriteAt(out[dest], utask[i].wpos, chunk)) @@ out
          /\ utask' = [utask EXCEPT
                ![i].remaining = @ - chunk_size,
                ![i].rpos = @ + Len(chunk),
                ![i].wpos = @ + Len(chunk),
                ![i].reads = @ \cup ReadRange(archive, from, chunk_size),
                ![i].st = IF utask[i].remaining - chunk_size > 0 THEN "running" ELSE "done"]
    /\ UNCHANGED << host, string_cache, calls, tree, sector_size, debug_mode, max_workers, pc, archive,
                    string_table, file_table, first_sector_offset, total_size, ptask, pmain,
                    pack_ret, verify_ret, uplan, umain, unpack_ret >>

(* unpack_cdfs lines 122-130: one turn of the as_completed loop *)
UnpackCollect(i) ==
    /\ pc = "unpack_fanout"
    /\ i \in Finished(utask) \ umain.collected
    /\ umain' = IF utask[i].st = "done"
                THEN [umain EXCEPT !.completed = @ + 1, !.collected = @ \cup {i}]
                ELSE [umain EXCEPT !.collected = @ \cup {i}, !.errors = @ \cup {i}]
    /\ UNCHANGED << host, string_cache, calls, tree, sector_size, debug_mode, max_workers, pc, archive,
                    string_table, file_table, first_sector_offset, total_size, ptask, pmain,
                    pack_ret, verify_ret, uplan, utask, out, unpack_ret >>

(* unpack_cdfs lines 132-133 *)
UnpackReturn ==
    /\ pc = "unpack_fanout"
    /\ umain.collected = DOMAIN utask
    /\ pc' = "unpacked"
    /\ unpack_ret' = "True"
    /\ UNCHANGED << host, string_cache, calls, tree, sector_size, debug_mode, max_workers, archive,
                    string_table, file_table, first_sector_offset, total_size, ptask, pmain,
                    pack_ret, verify_ret, uplan, utask, umain, out >>

UnpackNext ==
    \/ UnpackPreamble
    \/ \E i \in DOMAIN utask : UnpackTaskOpen(i)
    \/ \E i \in DOMAIN utask : UnpackTaskFail(i)
    \/ \E i \in DOMAIN utask : UnpackTaskChunk(i)
    \/ \E i \in DOMAIN utask : UnpackCollect(i)
    \/ UnpackReturn

Next == PackNext \/ VerifyCdfs \/ UnpackNext

Spec == Init /\ [][Next]_vars

(* ====================== the claims, under Spec ======================== *)

PackOver == pc \in {"packed", "pack_raised"}
Unpacking == pc \in {"unpack_fanout", "unpacked"}
PackFailed == { i \in DOMAIN ptask : ptask[i].st = "failed" }
UnpackFailed == { i \in DOMAIN utask : utask[i].st = "failed" }

(* the byte range of entry e's payload and of its sectors, from the archive's header *)
PayloadStart(h, e) == h.first_sector_offset + e.start_sector * h.sector_size
PayloadRange(h, e) == PayloadStart(h, e)..(PayloadStart(h, e) + e.length - 1)
SectorRange(h, e) ==
    PayloadStart(h, e)..(PayloadStart(h, e)
                           + SectorsNeeded(e.length, h.sector_size) * h.sector_size - 1)

(* C2: every archive pack_cdfs has produced is valid: the magic matches,      *)
(* first_sector_offset is a multiple of sector_size and at least              *)
(* 40 + 16*entries + string_table_length, the archive's size is               *)
(* first_sector_offset + total_sectors*sector_size, every entry's string      *)
(* offsets are below string_table_length and its extent ends within the       *)
(* archive, and verify_cdfs returns True on it; an empty tree gives           *)
(* file_table_entries = 0 and total_sectors = 0.                              *)
C2_PackedArchiveValid ==
    /\ pc = "verified" => verify_ret.ret = TRUE
    /\ PackOver =>
        LET h == ParseHeader(archive)
        IN /\ h.magic = CDFS_MAGIC
           /\ h.sector_size = sector_size
           /\ h.file_table_entries = Len(tree)
           /\ h.file_table_length = EntrySize * Len(tree)
           /\ h.first_sector_offset % h.sector_size = 0
           /\ h.first_sector_offset
                >= HeaderSize + EntrySize * h.file_table_entries + h.string_table_length
           /\ Len(archive) = h.first_sector_offset + h.total_sectors * h.sector_size
           /\ \A i \in 0..(h.file_table_entries - 1) :
                LET e == ParseEntry(archive, i)
                IN /\ e.file_name_offset < h.string_table_length
                   /\ e.dir_name_offset < h.string_table_length
                   /\ e.length = Len(tree[i + 1].data)
                   /\ PayloadStart(h, e) + e.length <= Len(archive)
           /\ (tree = << >> => h.file_table_entries = 0 /\ h.total_sectors = 0)

C2_Witness ==
    /\ pack_ret = "True"
    /\ Len(tree) = 2
    /\ \A i \in 1..2 : Len(tree[i].data) > 0 /\ ptask[i].st = "done"
    /\ verify_ret.ret = TRUE
    /\ verify_ret.msg = ""

(* C3: the byte ranges the per-file tasks of pack write never overlap: what   *)
(* the task of entry i has written lies inside the sectors of entry i, at or  *)
(* after first_sector_offset and inside the pre-extended archive, the sectors *)
(* of two distinct entries are disjoint, a finished task has written exactly  *)
(* its sectors, and a zero-length file writes nothing.                        *)
C3_DisjointWrites ==
    \A i \in DOMAIN ptask :
        LET lo == first_sector_offset + file_table[i].start_sector * sector_size
            hi == lo + SectorsNeeded(file_table[i].size, sector_size) * sector_size
        IN /\ ptask[i].wrote \subseteq lo..(hi - 1)
           /\ \A k \in ptask[i].wrote : k >= first_sector_offset /\ k < Len(archive)
           /\ ptask[i].st = "done" => ptask[i].wrote = lo..(hi - 1)
           /\ file_table[i].size = 0 => ptask[i].wrote = {}
           /\ \A j \in DOMAIN ptask : j # i => ptask[i].wrote \cap ptask[j].wrote = {}

C3_Witness ==
    /\ Len(ptask) = 2
    /\ ptask[1].st = "data_written"
    /\ ptask[2].st = "data_written"
    /\ ptask[1].wrote # {}
    /\ ptask[2].wrote # {}

(* the archive pack_cdfs builds when the tasks run one after the other in     *)
(* table order, those in `failed` writing nothing                             *)
RECURSIVE SequentialPayloads(_, _, _, _, _, _, _)
SequentialPayloads(a, t, ft, fso, ss, failed, k) ==
    IF k > Len(ft) THEN a
    ELSE LET off == FileOffset(fso, ft[k].start_sector, ss)
             data == t[k].data
             next == IF k \in failed THEN a
                     ELSE WriteAt(WriteAt(a, off, data), off + Len(data),
                                  Zeros(SectorPadding(Len(data), ss)))
         IN SequentialPayloads(next, t, ft, fso, ss, failed, k + 1)

SequentialArchive(h, t, ss, cache_size, failed) ==
    LET tb == InternFiles(h, WalkFiles(h, t), 1, InternStart)
        ft == AssignSectors(tb.file_table, ss)
    IN SequentialPayloads(Preamble(ft, tb.string_table, tb.string_table_entries, ss, cache_size),
                          t, ft, FirstSectorOffset(Len(ft), Len(tb.string_table), ss),
                          ss, failed, 1)

(* C4: the archive pack_cdfs leaves is a function of the walked file list and *)
(* sector_size / cache_size only: whatever the worker count and however the   *)
(* tasks interleave and complete, it is the archive a sequential run in table *)
(* order gives (a task whose read failed leaving its sectors zero).           *)
C4_Deterministic ==
    PackOver =>
        archive = SequentialArchive(host, tree, sector_size, DefaultCacheSize, PackFailed)

C4_Witness ==
    /\ pack_ret = "True"
    /\ max_workers = 2
    /\ Len(tree) = 2
    /\ PackFailed = {}
    /\ \A i \in 1..2 : Len(tree[i].data) > 0
    /\ pmain.completed = 2

(* C5: after pack_cdfs, every entry's payload starts at a multiple of         *)
(* sector_size, the archive bytes from the payload's end to the next sector   *)
(* boundary are zero, and the unpack task of the entry reads from the archive *)
(* only the payload's bytes, all of them once it is done, never the padding.  *)
C5_SectorAlignment ==
    (PackOver \/ Unpacking) =>
        LET h == ParseHeader(archive)
        IN \A i \in 0..(h.file_table_entries - 1) :
              LET e == ParseEntry(archive, i)
              IN /\ PayloadStart(h, e) % h.sector_size = 0
                 /\ \A k \in SectorRange(h, e) \ PayloadRange(h, e) :
                        k < Len(archive) /\ archive[k + 1] = 0
                 /\ (i + 1) \in DOMAIN utask =>
                        /\ utask[i + 1].reads \subseteq PayloadRange(h, e)
                        /\ utask[i + 1].st = "done" => utask[i + 1].reads = PayloadRange(h, e)

C5_Witness ==
    /\ unpack_ret = "True"
    /\ sector_size = 3
    /\ Len(utask) = 2
    /\ \A i \in 1..2 : utask[i].st = "done" /\ Len(tree[i].data) % 3 # 0

(* the path of source file f below input_dir, component by component, upper-cased *)
UpperPath(f) == [k \in 1..(Len(f.dir) + 1) |-> Upper((f.dir \o << f.name >>)[k])]

(* C1: round trip: pack_cdfs then unpack_cdfs, no task failing, leaves for    *)
(* every source file an output file at the upper-cased relative path with the *)
(* source's bytes, none missing and no two merged into one output file.       *)
C1_RoundTrip ==
    (unpack_ret = "True" /\ PackFailed = {} /\ UnpackFailed = {}) =>
        /\ \A i \in 1..Len(tree) :
              /\ UpperPath(tree[i]) \in DOMAIN out
              /\ out[UpperPath(tree[i])] = tree[i].data
        /\ Cardinality(DOMAIN out) = Len(tree)

(* C9: partial-failure policy: when a task has failed, pack_cdfs and          *)
(* unpack_cdfs still end with every task finished, the failure reported for   *)
(* its file, and the value True returned, whatever debug_mode is.             *)
C9_PartialFailurePolicy ==
    /\ (PackOver /\ PackFailed # {}) =>
          /\ Finished(ptask) = DOMAIN ptask
          /\ PackFailed \subseteq pmain.errors
          /\ pack_ret = "True"
    /\ (pc = "unpacked" /\ UnpackFailed # {}) =>
          /\ Finished(utask) = DOMAIN utask
          /\ UnpackFailed \subseteq umain.errors
          /\ unpack_ret = "True"

(* the offsets at which the entries of a string table start *)
EntryStarts(st) == { o \in 0..(Len(st) - 1) : o = 0 \/ st[o] = 0 }

(* the directory of source file f as the string table spells it *)
DirString(f) == Upper(JoinPath("nt", f.dir))

(* C10: dedup: once pack has built the string table, the directory of every   *)
(* file has exactly one entry in it, equal to the upper-cased directory name, *)
(* and every file of that directory carries that entry's offset as its        *)
(* dir_name_offset.                                                           *)
C10_Dedup ==
    pc # "start" =>
        \A i \in 1..Len(tree) :
            LET at == { o \in EntryStarts(string_table) :
                          unpack_string_from_table(string_table, o) = DirString(tree[i]) }
            IN /\ Cardinality(at) = 1
               /\ file_table[i].dir_name_offset \in at

(* C12: in unpack_cdfs on the archive pack_cdfs produced, the destinations of  *)
(* distinct file-table entries are distinct files: no two unpack tasks open   *)
(* or write the same output file.                                             *)
C12_DistinctDestinations ==
    \A i, j \in DOMAIN uplan :
        i # j => Dest(host, uplan[i]) # Dest(host, uplan[j])

(* ============== archives that pack_cdfs did not produce =============== *)
MaxCraftedEntries == 1

CraftedStringTables == { << 0, 65, 0, 68, 0 >>, << 0, 65, 0 >>, << 0, BADBYTE, 0 >> }
CraftedNames ==       \* (file_name_offset, dir_name_offset)
    { << 1, 0 >>, << 1, 3 >>, << 3, 0 >>, << 0, 0 >> }
CraftedExtents ==     \* (start_sector, length)
    { << 0, 0 >>, << 0, 3 >>, << 1, 3 >>, << 0, 200 >> }
CraftedEntries == CraftedNames \X CraftedExtents
CraftedPayload == << 31, 32 >>

(* a well-formed header, or one with a single field off *)
HeaderDefects == {"none", "magic", "version", "ftl", "fso_low", "fso_high", "sectors"}

Crafted ==
    [defect : HeaderDefects,
     sector_size : {1, 2},
     entries : UNION { [1..n -> CraftedEntries] : n \in 0..MaxCraftedEntries },
     string_table : CraftedStringTables,
     keep : {HeaderSize - 1, 2 * HeaderSize + EntrySize * MaxCraftedEntries}]

(* the bytes of the file c describes, cut after c.keep bytes *)
CraftedArchive(c) ==
    LET n == Len(c.entries)
        raw == HeaderSize + EntrySize * n + Len(c.string_table)
        fso == IF c.defect = "fso_low" THEN raw - 1
               ELSE IF c.defect = "fso_high" THEN raw + 1 ELSE raw
        header == PackHeader(<<
            IF c.defect = "magic" THEN CDFS_MAGIC + 1 ELSE CDFS_MAGIC,
            IF c.defect = "version" THEN CDFS_VERSION + 1 ELSE CDFS_VERSION,
            c.sector_size, DefaultCacheSize, fso,
            IF c.defect = "sectors" THEN 9 ELSE 0,
            IF c.defect = "ftl" THEN EntrySize * n + 1 ELSE EntrySize * n,
            n, Len(c.string_table), n + 1 >>)
        whole == WriteAt(header \o Concat([k \in 1..n |-> PackEntry(
                                 [file_name_offset |-> c.entries[k][1][1],
                                  dir_name_offset |-> c.entries[k][1][2],
                                  start_sector |-> c.entries[k][2][1],
                                  size |-> c.entries[k][2][2]])])
                                \o c.string_table,
                         fso, CraftedPayload)
    IN SubSeq(whole, 1, Min(Len(whole), c.keep))

InitCrafted ==
    /\ host \in Hosts
    /\ tree = << >>
    /\ sector_size = 1
    /\ debug_mode = FALSE
    /\ max_workers = MaxWorkers      \* max_workers=None: os.cpu_count() workers
    /\ pc = "crafted"
    /\ \E c \in Crafted : archive = CraftedArchive(c)
    /\ string_table = << >>
    /\ string_cache = << >>
    /\ calls = << >>
    /\ file_table = << >>
    /\ first_sector_offset = 0
    /\ total_size = 0
    /\ ptask = << >>
    /\ pmain = [completed |-> 0, processed_size |-> 0, collected |-> {}, errors |-> {}]
    /\ pack_ret = "none"
    /\ verify_ret = [ret |-> FALSE, msg |-> "not run", warned |-> FALSE]
    /\ uplan = << >>
    /\ utask = << >>
    /\ umain = [completed |-> 0, collected |-> {}, errors |-> {}]
    /\ out = << >>
    /\ unpack_ret = "none"

NextCrafted == VerifyCdfs \/ UnpackNext

SpecCrafted == InitCrafted /\ [][NextCrafted]_vars

(* ================== the claims, under SpecCrafted ===================== *)

(* C6: an unpack task that ends without an error has written an output file   *)
(* of exactly `length` bytes, the archive's bytes from the entry's offset;    *)
(* an archive shorter than that range does not give a shorter file.           *)
C6_ExactLength ==
    \A i \in DOMAIN utask :
        utask[i].st = "done" =>
            LET d == Dest(host, uplan[i])
            IN /\ d \in DOMAIN out
               /\ Len(out[d]) = uplan[i].file_length
               /\ \A k \in 1..uplan[i].file_length :
                     /\ uplan[i].file_offset + k <= Len(archive)
                     /\ out[d][k] = archive[uplan[i].file_offset + k]

Verified == verify_ret.msg # "not run"

(* the archive with its version field set to v *)
WithVersion(a, v) == WriteAt(a, 4, Pack32(v))

(* C7: verify_cdfs returns False when the magic is not CDFS_MAGIC, when some  *)
(* entry has start_sector*sector_size + length beyond the archive's size, and *)
(* when file_table_entries*16 is not file_table_length; the version alone     *)
(* never makes it fail: it returns what it returns with CDFS_VERSION there.   *)
C7_VerifyRejects ==
    (Verified /\ Len(archive) >= HeaderSize) =>
        LET h == ParseHeader(archive)
        IN /\ h.magic # CDFS_MAGIC => verify_ret.ret = FALSE
           /\ (\E i \in 0..(EntriesPresent(archive, h.file_table_entries) - 1) :
                  LET e == ParseEntry(archive, i)
                  IN e.start_sector * h.sector_size + e.length > Len(archive))
                => verify_ret.ret = FALSE
           /\ h.file_table_entries * EntrySize # h.file_table_length
                => verify_ret.ret = FALSE
           /\ verify_ret.ret = verify_cdfs(WithVersion(archive, CDFS_VERSION)).ret

C7_Witness ==
    /\ Verified
    /\ Len(archive) >= HeaderSize
    /\ LET h == ParseHeader(archive)
       IN /\ h.magic = CDFS_MAGIC
          /\ h.version # CDFS_VERSION
          /\ h.file_table_entries * EntrySize = h.file_table_length
          /\ EntriesPresent(archive, h.file_table_entries) = 1
          /\ ParseEntry(archive, 0).start_sector * h.sector_size
                + ParseEntry(archive, 0).length > Len(archive)
    /\ verify_ret.warned
    /\ verify_ret.ret = FALSE
    /\ verify_ret.msg = "extends beyond end of archive"

(* C8: whenever verify_cdfs returns True the archive satisfies every header   *)
(* and entry invariant: first_sector_offset is a multiple of sector_size and  *)
(* at least 40 + file_table_length + string_table_length, the sectors end     *)
(* within the archive, every entry's string offsets and extent are in bounds. *)
C8_VerifyComplete ==
    (Verified /\ verify_ret.ret = TRUE) =>
        LET h == ParseHeader(archive)
        IN /\ h.first_sector_offset % h.sector_size = 0
           /\ h.first_sector_offset
                >= HeaderSize + h.file_table_length + h.string_table_length
           /\ h.first_sector_offset + h.total_sectors * h.sector_size <= Len(archive)
           /\ \A i \in 0..(h.file_table_entries - 1) :
                 LET e == ParseEntry(archive, i)
                 IN /\ e.file_name_offset < h.string_table_length
                    /\ e.dir_name_offset < h.string_table_length
                    /\ PayloadStart(h, e) + e.length <= Len(archive)

(* C11: a lookup at an offset at or past the end of the string table fails:   *)
(* whenever unpack_cdfs has built its file_tasks, the file name and the       *)
(* directory name of every task were read at offsets inside the string table. *)
C11_LookupInBounds ==
    \A i \in DOMAIN uplan :
        LET h == ParseHeader(archive)
            st == ReadStringTable(archive, h)
            e == ParseEntry(archive, i - 1)
        IN /\ e.file_name_offset < Len(st)
           /\ e.dir_name_offset < Len(st)

(* ============ add_string_to_table, one call after another ============= *)
MaxCalls == 3

(* "", "A", "a", "B", "AB", "BA", "aB" *)
StringValues ==
    { << >>, << 65 >>, << 97 >>, << 66 >>, << 65, 66 >>, << 66, 65 >>, << 97, 66 >> }

(* string_table = bytearray(b'\0'), string_cache = {} *)
InitStrings ==
    /\ host = "posix"
    /\ tree = << >>
    /\ sector_size = 1
    /\ debug_mode = FALSE
    /\ max_workers = 1
    /\ pc = "strings"
    /\ archive = << >>
    /\ string_table = InternStart.string_table
    /\ string_cache = InternStart.string_cache
    /\ calls = << >>
    /\ file_table = << >>
    /\ first_sector_offset = 0
    /\ total_size = 0
    /\ ptask = << >>
    /\ pmain = [completed |-> 0, processed_size |-> 0, collected |-> {}, errors |-> {}]
    /\ pack_ret = "none"
    /\ verify_ret = [ret |-> FALSE, msg |-> "not run", warned |-> FALSE]
    /\ uplan = << >>
    /\ utask = << >>
    /\ umain = [completed |-> 0, collected |-> {}, errors |-> {}]
    /\ out = << >>
    /\ unpack_ret = "none"

(* one call add_string_to_table(string_table, string_cache, string_value) *)
AddString ==
    /\ pc = "strings"
    /\ Len(calls) < MaxCalls
    /\ \E string_value \in StringValues :
          LET r == add_string_to_table(string_table, string_cache, string_value)
          IN /\ string_table' = r.table
             /\ string_cache' = r.cache
             /\ calls' = Append(calls, [value |-> string_value, offset |-> r.offset,
                                        before |-> string_table, after |-> r.table])
    /\ UNCHANGED << host, tree, sector_size, debug_mode, max_workers, pc, archive,
                    file_table, first_sector_offset, total_size, ptask, pmain, pack_ret,
                    verify_ret, uplan, utask, umain, out, unpack_ret >>

NextStrings == AddString

SpecStrings == InitStrings /\ [][NextStrings]_vars

(* C13: in any sequence of add_string_to_table calls from the table b'\0' and  *)
(* an empty cache, every returned offset is the start of a table entry (0, or *)
(* just after a null byte), unpack_string_from_table there gives the          *)
(* upper-cased value, the empty string gets offset 0, and a call whose value  *)
(* is already in the table returns the earlier offset and leaves the table    *)
(* as it was.                                                                 *)
C13_InternOffsets ==
    \A k \in DOMAIN calls :
        LET c == calls[k]
            value == Upper(c.value)
            earlier == { j \in 1..(k - 1) : Upper(calls[j].value) = value }
            present == { o \in EntryStarts(c.before) :
                           unpack_string_from_table(c.before, o) = value }
        IN /\ c.offset \in EntryStarts(c.after)
           /\ unpack_string_from_table(c.after, c.offset) = value
           /\ unpack_string_from_table(string_table, c.offset) = value
           /\ value = << >> => c.offset = 0
           /\ present # {} => (c.after = c.before /\ c.offset \in present)
           /\ \A j \in earlier : calls[j].offset = c.offset /\ c.after = c.before

(* "AB", then its suffix "B", then "aB" again *)
C13_Witness ==
    /\ Len(calls) = 3
    /\ calls[1].value = << 65, 66 >> /\ calls[1].offset = 1
    /\ calls[2].value = << 66 >> /\ calls[2].offset = 4
    /\ calls[3].value = << 97, 66 >> /\ calls[3].offset = 1
    /\ string_table = << 0, 65, 66, 0, 66, 0 >>

====
